---- MODULE Spec2Model ----
(***************************************************************************)
(* Model of ScheduleOptimizer (src/src/tools/scheduling_tools.py): the     *)
(* visit-info cache with its batch prefetch, and the day-by-day greedy     *)
(* scheduler of execute.                                                   *)
(*                                                                         *)
(* Units.  Dwell durations are Python floats in hours; the model keeps     *)
(* them in minutes (1.0 h = 60).  Clock values and travel durations are    *)
(* kept in seconds: get_travel_time returns seconds/60 minutes and the     *)
(* caller feeds that to timedelta(minutes=...), i.e. the same number of    *)
(* seconds.  A clock value is "seconds since 00:00 of the trip's first     *)
(* day"; strftime("%H:%M") is HHMM below.                                  *)
(*                                                                         *)
(* An attraction is a Python object handled by reference; the model names  *)
(* the objects 1..NumPois and reads their keys through accessor operators. *)
(***************************************************************************)
EXTENDS Integers, Sequences, FiniteSets, TLC

\* ------------------------------------------------------------------ bounds
NumPois == 3        \* attraction objects 1..NumPois
MaxPool == 3        \* longest pool handed to execute
MaxPoolP == 6       \* longest pool handed to prefetch_visit_info on its own
MaxDays == 2        \* longest trip, in days
MaxDirect == 1      \* direct calls of get_visit_info after a prefetch
MaxTags == 2        \* most category tags of an attraction given to estimate_visit_duration
MaxWords == 1       \* most name keywords of such an attraction
MaxReviews == 3     \* most reviews given to extract_duration_from_reviews

\* ------------------------------------------------------- program constants
BatchSize == 5              \* batch_size
FallbackTravelMinutes == 30 \* get_travel_time's fallback
DetermineOptimalTimeParams == 2   \* def determine_optimal_time(self, hours, reviews)
DetermineOptimalTimeArgs == 1     \* self.determine_optimal_time(sampled_reviews)

\* --------------------------------------------------------------- utilities
Range(s) == {s[i] : i \in DOMAIN s}

Min(a, b) == IF a < b THEN a ELSE b

\* all sequences over S of length at most n
RECURSIVE SeqsUpTo(_, _)
SeqsUpTo(S, n) ==
    IF n = 0 THEN {<<>>}
    ELSE LET shorter == SeqsUpTo(S, n - 1)
         IN shorter \cup {Append(s, x) : s \in {t \in shorter : Len(t) = n - 1}, x \in S}

\* the sequences among them that repeat no entry
DistinctSeqs(S, n) ==
    {s \in SeqsUpTo(S, n) : \A i, j \in DOMAIN s : i # j => s[i] # s[j]}

\* ------------------------------------------------------------- attractions
Pois == 1..NumPois

\* 'place_id' in attraction
HasPlaceId(a) == a # 3

PlaceIdValue(a) ==
    CASE a = 1 -> "pid1"
      [] a = 2 -> "pid2"
      [] a = 4 -> "pid4"
      [] OTHER -> "pid5"

\* the key taken from the default alone, the attraction's identity ignored
GetPlaceIdDefaultOnly(a, default) == default

\* attraction.get('place_id', default)
GetPlaceId(a, default) == IF HasPlaceId(a) THEN PlaceIdValue(a) ELSE default

\* attraction.get("types", [])
Types(a) == IF a = 3 THEN {"museum"} ELSE {}

\* the keywords that occur in attraction.get("name", "").lower()
NameWords(a) == IF a = 1 THEN {"church"} ELSE {}

\* attraction.get("user_ratings_total", 0)
RatingCount(a) ==
    CASE a = 3 -> 12000
      [] a \in {1, 2} -> 0
      [] OTHER -> 1500

\* attraction['geometry']['location']
Location(a) == a

\* a coordinate that is no attraction's
Hotel == 0

\* estimate_visit_duration whose last branch (line 689) gives nothing
EstimateDurationNoDefault(types, name, rating_count) ==
    IF types # {} \/ name # {} \/ rating_count >= 1000 THEN 90 ELSE 0

\* estimate_visit_duration on the keys it reads, in minutes
EstimateDuration(types, name, rating_count) ==
    CASE "museum" \in types ->
            IF rating_count >= 10000 THEN 180
            ELSE IF rating_count >= 5000 THEN 150 ELSE 120
      [] "museum" \notin types /\ "art_gallery" \in types -> 90
      [] {"museum", "art_gallery"} \cap types = {} /\ "park" \in types ->
            IF rating_count >= 5000 THEN 150 ELSE 90
      [] {"museum", "art_gallery", "park"} \cap types = {}
            /\ {"zoo", "aquarium"} \cap types # {} -> 180
      [] {"museum", "art_gallery", "park", "zoo", "aquarium"} \cap types = {}
            /\ {"amusement_park", "theme_park"} \cap types # {} -> 240
      [] OTHER ->
            LET rest == types \ {"museum", "art_gallery", "park", "zoo",
                                  "aquarium", "amusement_park", "theme_park"}
            IN IF "beach" \in rest THEN 150
               ELSE IF "shopping_mall" \in rest THEN 120
               ELSE IF {"restaurant", "cafe"} \cap rest # {} THEN 90
               ELSE IF {"historic", "castle", "palace"} \cap name # {} THEN 120
               ELSE IF {"cathedral", "church", "temple", "shrine"} \cap name # {} THEN 60
               ELSE IF "garden" \in name THEN 90
               ELSE IF {"landmark", "monument"} \cap rest # {} THEN 60
               ELSE IF rating_count >= 10000 THEN 150
               ELSE IF rating_count >= 5000 THEN 120
               ELSE IF rating_count >= 1000 THEN 90
               ELSE 60

estimate_visit_duration(a) == EstimateDuration(Types(a), NameWords(a), RatingCount(a))

\* ------------------------------------------------------------ collaborators
\* What gmaps.place can do: raise, answer something that is no mapping of the
\* expected shape, or answer place details.  Of the details the model keeps
\* what calculate_duration reads: the value extract_duration_from_reviews
\* finds in the reviews (minutes, 0 when it finds none), the rating (times
\* ten) and the rating count.
PlaceResponses ==
    { [status |-> "raise",     reviews_duration |-> 0,   rating10 |-> 0,  user_ratings_total |-> 0],
      [status |-> "malformed", reviews_duration |-> 0,   rating10 |-> 0,  user_ratings_total |-> 0],
      [status |-> "ok",        reviews_duration |-> 120, rating10 |-> 0,  user_ratings_total |-> 0],
      [status |-> "ok",        reviews_duration |-> 0,   rating10 |-> 46, user_ratings_total |-> 2000] }

\* What get_visit_details_from_llm can return: None (also after a failure),
\* or the parsed fields, each possibly None (0 / "").
LlmResponses ==
    { [answered |-> FALSE, duration |-> 0,  optimal_time |-> ""],
      [answered |-> TRUE,  duration |-> 45, optimal_time |-> "Morning is recommended"] }

DefaultOptimalTime == "Anytime during opening hours"

\* calculate_duration, in minutes
calculate_duration(place_details, a) ==
    LET base_duration == estimate_visit_duration(a)
        rating10 == place_details.rating10
        rating_count == place_details.user_ratings_total
        duration_from_reviews == place_details.reviews_duration
    IN IF duration_from_reviews # 0 THEN duration_from_reviews
       ELSE IF rating10 >= 45 /\ rating_count > 1000 THEN (base_duration * 12) \div 10
       ELSE IF rating10 <= 35 /\ rating_count > 500 THEN (base_duration * 8) \div 10
       ELSE base_duration

\* The call self.determine_optimal_time(sampled_reviews) binds one argument to
\* a method that requires two: Python raises TypeError at the call.
DetermineOptimalTimeRaises == DetermineOptimalTimeArgs # DetermineOptimalTimeParams

\* ------------------------------------------------------------------- state
VARIABLES
    args,                   \* the arguments of the running execute call
    hashable,               \* whether the attraction objects define __hash__
    llm_client,             \* whether self.llm_client is set
    place_menu,             \* what gmaps.place can answer in this run
    pc,                     \* where the running call stands
    caller,                 \* who called prefetch_visit_info
    visit_info_cache,       \* self.visit_info_cache: place_id -> visit_info
    tasks,                  \* prefetch_visit_info: the coroutines, by attraction
    next_i,                 \* prefetch_visit_info: start of the next batch
    inflight,               \* tasks handed to asyncio.gather and not finished
    finished,               \* tasks that ran to completion
    place_calls,            \* number of gmaps.place calls, by place_id
    cache_writes,           \* number of cache assignments, by place_id
    llm_calls,              \* number of LLM queries
    first_return,           \* first value get_visit_info returned, by place_id
    last_return,            \* <<place_id, value, attraction>> of the latest return
    directs,                \* direct calls made so far
    unscheduled_attractions,
    daily_schedules,
    accomodation_location,
    day,
    schedule,
    current_time,
    current_location,
    grouped,                \* sort_by_...: the groups still to be ordered, by score
    sorted_result,          \* sort_by_...: result
    sort_current,           \* sort_by_...: current
    durations,              \* sort_by_...: the durations of the latest answer
    day_attractions,        \* the candidates still to be walked today
    result,                 \* what execute returned
    est_attraction,         \* estimate_visit_duration called on its own: its argument
    est_result,             \* ... and what it returned
    ext_reviews,            \* extract_duration_from_reviews called on its own: its argument
    ext_result              \* ... and what it returned

inputVars == <<args, hashable, llm_client, place_menu>>
cacheVars == <<visit_info_cache, place_calls, cache_writes, llm_calls,
               first_return, last_return>>
prefetchVars == <<tasks, next_i, inflight, finished>>
dayVars == <<unscheduled_attractions, daily_schedules, accomodation_location,
             day, schedule, current_time, current_location, grouped,
             sorted_result, sort_current, durations, day_attractions, result>>
estimateVars == <<est_attraction, est_result>>
extractVars == <<ext_reviews, ext_result>>
vars == <<inputVars, pc, caller, cacheVars, prefetchVars, directs, dayVars, estimateVars,
          extractVars>>

\* what execute returns from its handler of lines 155-156
\* "error" names the exception whose text the message carries: what str(e)
\* tells apart.
ErrorResult(e) == [kind |-> "error", plans |-> <<>>, error |-> e]

\* ------------------------------------------------------------ get_visit_info
CacheKeys == {GetPlaceId(a, "unkown") : a \in Pois}

\* get_visit_info without the test of lines 176-177
GetVisitInfoNeverCached(cache, place_id) == FALSE

\* the test of lines 176-177 missing the entry filed under the default key
GetVisitInfoCachedById(cache, place_id) ==
    place_id \in DOMAIN cache /\ place_id # "unkown"

\* place_id in self.visit_info_cache, as get_visit_info asks it
GetVisitInfoCached(cache, place_id) == place_id \in DOMAIN cache

\* get_visit_info with the gmaps.place call outside any try: its failure leaves
\* the function
BuildVisitInfoUncaught(a, place, llm, llm_set) ==
    LET base == [recommended_duration |-> EstimateDuration(Types(a), NameWords(a), RatingCount(a)),
                 optimal_time |-> "Anytime during opening hours"]
    IN IF place.status # "ok" THEN <<base, FALSE, TRUE>>
       ELSE <<("recommeded_duration" :> place.reviews_duration) @@ base, FALSE, FALSE>>

\* The visit_info get_visit_info builds on a cache miss (lines 179-220).  It
\* yields <<visit_info, LLM queried, exception left the function>>.  Every
\* statement that can fail sits in the try of line 184, whose handler passes.
BuildVisitInfo(a, place, llm, llm_set) ==
    LET base == [recommended_duration |-> estimate_visit_duration(a),
                 optimal_time |-> DefaultOptimalTime]
    IN IF place.status # "ok" THEN <<base, FALSE, FALSE>>
       ELSE
         \* line 195 assigns under the key 'recommeded_duration'
         LET refined == ("recommeded_duration" :> calculate_duration(place, a)) @@ base
         IN IF DetermineOptimalTimeRaises THEN <<refined, FALSE, FALSE>>
            ELSE IF ~llm_set THEN <<refined, FALSE, FALSE>>
            ELSE IF ~llm.answered THEN <<refined, TRUE, FALSE>>
            ELSE <<[refined EXCEPT
                      !.recommended_duration =
                          IF llm.duration # 0 THEN llm.duration ELSE @,
                      !.optimal_time =
                          IF llm.optimal_time # "" THEN llm.optimal_time ELSE @],
                   TRUE, FALSE>>

\* what last_return holds when the call raised instead of returning
Raised == [raised |-> TRUE]

\* One whole run of get_visit_info(a).  No await is reached before the cache
\* assignment (the only await sits behind the determine_optimal_time call), so
\* the coroutine runs from its first line to its return without yielding.
get_visit_info(a, place, llm) ==
    LET place_id == GetPlaceId(a, "unkown")
    IN IF GetVisitInfoCached(visit_info_cache, place_id)
       THEN /\ last_return' = <<place_id, visit_info_cache[place_id], a>>
            /\ first_return' = IF place_id \in DOMAIN first_return THEN first_return
                               ELSE (place_id :> visit_info_cache[place_id]) @@ first_return
            /\ UNCHANGED <<visit_info_cache, place_calls, cache_writes, llm_calls>>
       ELSE LET built == BuildVisitInfo(a, place, llm, llm_client)
            IN /\ place_calls' = [place_calls EXCEPT ![place_id] = @ + 1]
               /\ llm_calls' = llm_calls + (IF built[2] THEN 1 ELSE 0)
               /\ IF built[3]
                  THEN /\ last_return' = <<place_id, Raised, a>>
                       /\ UNCHANGED <<visit_info_cache, cache_writes, first_return>>
                  ELSE /\ visit_info_cache' = (place_id :> built[1]) @@ visit_info_cache
                       /\ cache_writes' = [cache_writes EXCEPT ![place_id] = @ + 1]
                       /\ last_return' = <<place_id, built[1], a>>
                       /\ first_return' =
                             IF place_id \in DOMAIN first_return THEN first_return
                             ELSE (place_id :> built[1]) @@ first_return

\* a collaborator a call of get_visit_info does not reach
NotAsked == [status |-> "not asked"]

\* what gmaps.place can answer to get_visit_info(a): it is called on a cache
\* miss only
PlaceAnswers(a) ==
    IF GetVisitInfoCached(visit_info_cache, GetPlaceId(a, "unkown"))
    THEN {NotAsked} ELSE place_menu

\* what the LLM can answer after gmaps.place answered place: line 199 is
\* reached with an llm_client, behind lines 185-196
LlmAnswers(place) ==
    IF llm_client /\ place.status = "ok" /\ ~DetermineOptimalTimeRaises
    THEN LlmResponses ELSE {NotAsked}

\* ------------------------------------------------------- prefetch_visit_info
\* lines 163-165 collecting no coroutine at all
PrefetchNeedsNothing(cache, a) == FALSE

\* the test of lines 163-164
PrefetchNeeds(cache, a) == GetPlaceId(a, "unkwown") \notin DOMAIN cache

\* tasks, after the loop of lines 162-165
PrefetchTasks(cache, attractions) ==
    SelectSeq(attractions, LAMBDA a : PrefetchNeeds(cache, a))

\* every remaining task gathered at once
BatchAll(i, n) == (i + 1)..n

\* tasks[i:i+batch_size], as 1-based task numbers
Batch(i, n) == (i + 1)..Min(i + BatchSize, n)

\* for i in range(0, len(tasks), batch_size): await asyncio.gather(*batch)
GatherBatch ==
    /\ pc = "prefetch"
    /\ inflight = {}
    /\ next_i < Len(tasks)
    /\ inflight' = Batch(next_i, Len(tasks))
    /\ next_i' = next_i + BatchSize
    /\ UNCHANGED <<inputVars, estimateVars, extractVars, pc, caller, cacheVars, tasks, finished, directs, dayVars>>

\* The coroutines of a batch that may run next: any of them, in no promised
\* order.  Coroutines made for one attraction are the same call, so among those
\* the one made first stands for them all.
Runnable(batch, made) ==
    {t \in batch : \A u \in batch : made[u] = made[t] => t <= u}

\* The event loop runs one gathered coroutine.  An exception leaving it would
\* leave gather and prefetch_visit_info too, and end in execute's handler of
\* line 155.
RunTask ==
    /\ pc = "prefetch"
    /\ \E t \in Runnable(inflight, tasks) :
       \E place \in PlaceAnswers(tasks[t]) :
       \E llm \in LlmAnswers(place) :
          /\ get_visit_info(tasks[t], place, llm)
          /\ inflight' = inflight \ {t}
          /\ finished' = finished \cup {t}
    /\ IF last_return'[2] # Raised THEN UNCHANGED <<pc, result>>
       ELSE /\ pc' = IF caller = "execute" THEN "done" ELSE "idle"
            /\ result' = IF caller = "execute" THEN ErrorResult("gmaps.place") ELSE result
    /\ UNCHANGED <<inputVars, estimateVars, extractVars, caller, tasks, next_i, directs,
                   unscheduled_attractions, daily_schedules, accomodation_location,
                   day, schedule, current_time, current_location, grouped,
                   sorted_result, sort_current, durations, day_attractions>>

\* prefetch_visit_info called on its own
DirectPrefetch ==
    /\ pc = "idle"
    /\ caller = "none"
    /\ tasks' = PrefetchTasks(visit_info_cache, args.attractions)
    /\ next_i' = 0
    /\ inflight' = {}
    /\ finished' = {}
    /\ pc' = "prefetch"
    /\ caller' = "direct"
    /\ UNCHANGED <<inputVars, estimateVars, extractVars, cacheVars, directs, dayVars>>

PrefetchReturns ==
    /\ pc = "prefetch"
    /\ caller = "direct"
    /\ inflight = {}
    /\ next_i >= Len(tasks)
    /\ pc' = "idle"
    /\ UNCHANGED <<inputVars, estimateVars, extractVars, caller, cacheVars, prefetchVars, directs, dayVars>>

\* get_visit_info called on its own
DirectGetVisitInfo ==
    /\ pc = "idle"
    /\ directs < MaxDirect
    /\ directs' = directs + 1
    /\ \E a \in Pois :
       \E place \in PlaceAnswers(a) :
       \E llm \in LlmAnswers(place) :
          get_visit_info(a, place, llm)
    /\ UNCHANGED <<inputVars, estimateVars, extractVars, pc, caller, prefetchVars, dayVars>>

\* ------------------------------------------------------------------ execute
NoLocation == -1            \* accomodation_location=None

\* A day's schedule dict.  Beside its keys the record keeps, for stating
\* properties, the pool the day began with, the cursor at the end of the walk,
\* the unformatted return travel and what the distance matrix reported for it.
NoSchedule == [date |-> 0, activities |-> <<>>, note |-> "", has_return |-> FALSE,
               departure_time |-> 0, return_travel |-> 0, arrival_time |-> 0,
               pool_at_start |-> <<>>, end_of_walk |-> 0, return_secs |-> 0,
               return_reported |-> 0]

\* (end - start).days + 1
DurationDays(start_date, end_date) == end_date - start_date + 1

\* strftime("%H:%M") of a clock value: minutes since midnight, seconds dropped
HHMM(t) == (t \div 60) % 1440

\* f"{minutes:.0f}" of seconds/60: rounded to the nearest minute, ties to even
FormatMinutes(secs) ==
    LET q == secs \div 60
        r == secs % 60
    IN IF r < 30 THEN q
       ELSE IF r > 30 THEN q + 1
       ELSE IF q % 2 = 0 THEN q ELSE q + 1

\* datetime.combine with the date of the trip's first day
CombineFirstDay(d, t) == t

\* datetime.combine(current_date.date(), t.time()) for day number d of the trip
Combine(d, t) == d * 86400 + t

\* What gmaps.distance_matrix can do for one origin and n destinations: raise,
\* answer without the expected rows/elements/duration, or answer a duration
\* (seconds) per destination.
TravelSecs == {900, 7200}

DistanceResponses(n) ==
    { [status |-> st, value |-> [i \in 1..n |-> 0]] : st \in {"raise", "malformed"} }
    \cup { [status |-> "ok", value |-> v] : v \in [1..n -> TravelSecs] }

\* the seconds a distance matrix response reports for its first destination,
\* NoAnswer when it raised or has no rows[0].elements[0].duration.value
NoAnswer == -1

Reported(response) == IF response.status = "ok" THEN response.value[1] ELSE NoAnswer

\* get_travel_time with its try/except left out, the missing value read as 0
GetTravelTimeNoFallback(response) == response.value[1]

\* get_travel_time: the reported seconds / 60, or 30 minutes on any exception;
\* the model keeps the minutes as seconds
get_travel_time(response) ==
    IF response.status = "ok" THEN response.value[1]
    ELSE FallbackTravelMinutes * 60

\* ExecuteStart: lines 51-60, up to the tasks prefetch_visit_info collects
ExecuteStart ==
    /\ pc = "idle"
    /\ caller = "none"
    /\ caller' = "execute"
    /\ IF ~args.dates_ok
       THEN \* strptime raises ValueError, caught at line 155
            /\ result' = ErrorResult("ValueError: time data")
            /\ pc' = "done"
            /\ UNCHANGED <<tasks, next_i, inflight, finished>>
       ELSE /\ tasks' = PrefetchTasks(visit_info_cache, args.attractions)
            /\ next_i' = 0
            /\ inflight' = {}
            /\ finished' = {}
            /\ pc' = "prefetch"
            /\ UNCHANGED result
    /\ UNCHANGED <<inputVars, estimateVars, extractVars, cacheVars, directs, unscheduled_attractions,
                   daily_schedules, accomodation_location, day, schedule,
                   current_time, current_location, grouped, sorted_result,
                   sort_current, durations, day_attractions>>

\* prefetch_visit_info returns to execute: lines 62-68
ExecuteAfterPrefetch ==
    /\ pc = "prefetch"
    /\ caller = "execute"
    /\ inflight = {}
    /\ next_i >= Len(tasks)
    /\ unscheduled_attractions' = args.attractions
    /\ daily_schedules' = <<>>
    /\ accomodation_location' =
          IF args.accomodation_location = NoLocation /\ args.attractions # <<>>
          THEN Location(args.attractions[1])
          ELSE args.accomodation_location
    /\ day' = 0
    /\ pc' = "day"
    \* the frame of prefetch_visit_info is gone, gather's results with it
    /\ tasks' = <<>>
    /\ next_i' = 0
    /\ finished' = {}
    /\ last_return' = <<>>
    /\ UNCHANGED <<inputVars, estimateVars, extractVars, caller, visit_info_cache, place_calls, cache_writes,
                   llm_calls, first_return, inflight, directs, schedule,
                   current_time, current_location, grouped, sorted_result,
                   sort_current, durations, day_attractions, result>>

\* execute returns: its locals are gone.  unscheduled_attractions is left as it
\* was, to state what a trip did not schedule.
FrameDropped ==
    /\ daily_schedules' = <<>>
    /\ accomodation_location' = Hotel
    /\ day' = 0
    /\ schedule' = NoSchedule
    /\ current_time' = 0
    /\ current_location' = Hotel
    /\ grouped' = <<>>
    /\ sorted_result' = <<>>
    /\ sort_current' = Hotel
    /\ durations' = <<>>
    /\ day_attractions' = <<>>

\* line 80 without its test
PoolExhaustedNever(unscheduled) == FALSE

\* if not unscheduled_attractions (line 80)
PoolExhausted(unscheduled) == unscheduled = <<>>

\* an opening-hours filter that finds every attraction closed
IsClosedAlways(cache, a, date) == FALSE

\* is_open_on_date: True on both paths
is_open_on_date(cache, a, date) ==
    LET place_id == GetPlaceId(a, "unknown")
    IN IF place_id \notin DOMAIN cache THEN TRUE ELSE TRUE

\* the for loop is over, or line 81 breaks out of it: return daily_schedules
ReturnSchedules ==
    /\ pc = "day"
    /\ \/ day >= DurationDays(args.start_date, args.end_date)
       \/ PoolExhausted(unscheduled_attractions)
    /\ result' = [kind |-> "plans", plans |-> daily_schedules]
    /\ pc' = "done"
    /\ FrameDropped
    /\ UNCHANGED <<inputVars, estimateVars, extractVars, caller, cacheVars, prefetchVars, directs,
                   unscheduled_attractions>>

\* Lines 84-86 build a set of the attractions.  Adding the first element hashes
\* it; a dict (what the places search yields) has no hash and set.add raises
\* TypeError, which line 155 turns into the error result.
ViableRaisesTypeError ==
    /\ pc = "day"
    /\ day < DurationDays(args.start_date, args.end_date)
    /\ ~PoolExhausted(unscheduled_attractions)
    /\ ~hashable
    /\ \E a \in Range(unscheduled_attractions) :
          is_open_on_date(visit_info_cache, a, args.start_date + day)
    /\ result' = ErrorResult("TypeError: unhashable type")
    /\ pc' = "done"
    /\ FrameDropped
    /\ UNCHANGED <<inputVars, estimateVars, extractVars, caller, cacheVars, prefetchVars, directs,
                   unscheduled_attractions>>

\* the period words found in optimal_time.lower()
NotePeriods(optimal_time) ==
    CASE optimal_time = "Morning is recommended" -> {"morning"}
      [] optimal_time = "Afternoon is recommended" -> {"afternoon"}
      [] optimal_time = "Evening is recommended" -> {"evening"}
      [] OTHER -> {}

\* current_date.hour: current_date is start + timedelta(days=day), a datetime
\* parsed from "%Y-%m-%d", so its hour is 0
CurrentHour == 0

\* time_score of lines 711-722
TimeScore(cache, a, current_hour) ==
    LET place_id == GetPlaceId(a, "unknown")
        optimal_time == IF place_id \in DOMAIN cache /\ "optimal_time" \in DOMAIN cache[place_id]
                        THEN cache[place_id].optimal_time ELSE ""
        periods == NotePeriods(optimal_time)
    IN IF "morning" \in periods /\ current_hour < 12 THEN 3
       ELSE IF "afternoon" \in periods /\ 12 <= current_hour /\ current_hour < 17 THEN 3
       ELSE IF "evening" \in periods /\ current_hour >= 17 THEN 3
       ELSE 0

\* lines 727-735 and 742: the dict grouped as the loop of line 742 goes over
\* it, by falling score, each group in the order the attractions were met
GroupByScore(cache, order) ==
    LET g3 == SelectSeq(order, LAMBDA a : TimeScore(cache, a, CurrentHour) = 3)
        g0 == SelectSeq(order, LAMBDA a : TimeScore(cache, a, CurrentHour) = 0)
    IN SelectSeq(<<[score |-> 3, group |-> g3], [score |-> 0, group |-> g0]>>,
                 LAMBDA g : g.group # <<>>)

NewSchedule(d, pool) ==
    [NoSchedule EXCEPT !.date = args.start_date + d, !.pool_at_start = pool]

\* Lines 71-102 on a day with a pool: the schedule dict, the viable set, and the
\* entry into sort_by_optimal_time_and_proximity up to its grouping.  A set is
\* iterated in no promised order: order is any listing of it.
DayBegins ==
    /\ pc = "day"
    /\ day < DurationDays(args.start_date, args.end_date)
    /\ ~PoolExhausted(unscheduled_attractions)
    /\ LET date == args.start_date + day
           today_viable_attractions ==
               {x \in Range(unscheduled_attractions) :
                    is_open_on_date(visit_info_cache, x, date)}
       IN /\ today_viable_attractions # {} => hashable
          /\ IF today_viable_attractions = {}
             THEN /\ daily_schedules' = Append(daily_schedules,
                        [NewSchedule(day, unscheduled_attractions) EXCEPT !.note =
                            "No attractions available for this day based on opening hours"])
                  /\ day' = day + 1
                  /\ UNCHANGED <<pc, schedule, current_time, current_location,
                                 grouped, sorted_result, sort_current>>
             ELSE /\ schedule' = NewSchedule(day, unscheduled_attractions)
                  /\ current_time' = Combine(day, args.start_time)
                  /\ current_location' = accomodation_location
                  /\ \E order \in DistinctSeqs(today_viable_attractions,
                                               Cardinality(today_viable_attractions)) :
                        /\ Len(order) = Cardinality(today_viable_attractions)
                        /\ grouped' = GroupByScore(visit_info_cache, order)
                  /\ sorted_result' = <<>>
                  /\ sort_current' = accomodation_location
                  /\ pc' = "sort"
                  /\ UNCHANGED <<daily_schedules, day>>
    /\ UNCHANGED <<inputVars, estimateVars, extractVars, caller, cacheVars, prefetchVars, directs,
                   unscheduled_attractions, accomodation_location,
                   durations, day_attractions, result>>

\* the head of the group taken whatever the durations
MinIndexFirst(value) == 1

\* min(range(len(durations)), key=...): the first index of a least duration
MinIndex(value) ==
    CHOOSE i \in DOMAIN value :
        /\ \A j \in DOMAIN value : value[i] <= value[j]
        /\ \A j \in DOMAIN value : j < i => value[j] > value[i]

\* group[i] read without taking it out of the group
PopKeeps(group, i) == group

\* group.pop(i)
Pop(group, i) == SubSeq(group, 1, i - 1) \o SubSeq(group, i + 1, Len(group))

\* One turn of the while loop of lines 744-759, with a distance matrix that
\* answers; after the last turn of the last group the ordered list goes back to
\* execute (line 98).
SortStep ==
    /\ pc = "sort"
    /\ grouped # <<>>
    /\ LET group == Head(grouped).group
       IN \E distances \in DistanceResponses(Len(group)) :
            /\ distances.status = "ok"
            /\ LET min_index == MinIndex(distances.value)
                   nearest == group[min_index]
                   rest == Pop(group, min_index)
                   groups == IF rest = <<>> THEN Tail(grouped)
                             ELSE <<[Head(grouped) EXCEPT !.group = rest]>>
                                      \o Tail(grouped)
               IN /\ grouped' = groups
                  /\ sort_current' = Location(nearest)
                  /\ IF groups = <<>>
                     THEN /\ day_attractions' = Append(sorted_result, nearest)
                          \* the function returns: its locals are gone
                          /\ sorted_result' = <<>>
                          /\ durations' = <<>>
                          /\ pc' = "walk"
                     ELSE /\ sorted_result' = Append(sorted_result, nearest)
                          /\ durations' = distances.value
                          /\ UNCHANGED <<day_attractions, pc>>
    /\ UNCHANGED <<inputVars, estimateVars, extractVars, caller, cacheVars, prefetchVars, directs,
                   unscheduled_attractions, daily_schedules, accomodation_location,
                   day, schedule, current_time, current_location, result>>

\* the exception that leaves sort_by_optimal_time_and_proximity: the one
\* distance_matrix raised, or the KeyError / IndexError of lines 753-755
SortError(distances) ==
    IF distances.status = "raise" THEN "gmaps.distance_matrix"
    ELSE "KeyError: distance matrix answer"

\* The distance matrix raises, or answers without rows/elements/duration, inside
\* sort_by_optimal_time_and_proximity: nothing catches it before line 155.
SortRaises ==
    /\ pc = "sort"
    /\ grouped # <<>>
    /\ \E distances \in DistanceResponses(Len(Head(grouped).group)) :
          /\ distances.status # "ok"
          /\ result' = ErrorResult(SortError(distances))
    /\ pc' = "done"
    /\ FrameDropped
    /\ UNCHANGED <<inputVars, estimateVars, extractVars, caller, cacheVars, prefetchVars, directs,
                   unscheduled_attractions>>

\* lines 105-109: the dwell of a candidate, in minutes
DwellMinutes(cache, a) ==
    LET place_id == GetPlaceId(a, "unknown")
    IN IF place_id \in DOMAIN cache /\ "recommended_duration" \in DOMAIN cache[place_id]
       THEN cache[place_id].recommended_duration
       ELSE estimate_visit_duration(a)

\* visit_info.get('optimal_time', 'Not avaialable') of line 125
ActivityOptimalTime(cache, a) ==
    LET place_id == GetPlaceId(a, "unknown")
    IN IF place_id \in DOMAIN cache /\ "optimal_time" \in DOMAIN cache[place_id]
       THEN cache[place_id].optimal_time
       ELSE "Not avaialable"

\* line 112 never breaking: a candidate that does not fit is skipped
OverWindowNever(now, dwell_minutes, window_end) == FALSE

\* line 112 allowing an hour past the window end
OverWindowWithSlack(now, dwell_minutes, window_end) ==
    now + dwell_minutes * 60 > window_end + 3600

\* line 112 comparing the cursor alone
OverWindowNoDwell(now, dwell_minutes, window_end) == now > window_end

\* line 112 adding the dwell as minutes where hours are meant
OverWindowWrongUnit(now, dwell_minutes, window_end) == now + dwell_minutes > window_end

\* the test of line 112: the candidate does not fit
OverWindow(now, dwell_minutes, window_end) == now + dwell_minutes * 60 > window_end

\* line 132 as unscheduled_attractions.pop()
RemoveLast(list, a) == SubSeq(list, 1, Len(list) - 1)

\* line 132 as unscheduled_attractions.pop(0)
RemoveHead(list, a) == Tail(list)

\* line 132 left out
RemoveNothing(list, a) == list

\* unscheduled_attractions.remove(attraction): the first equal entry goes
RemoveFirst(list, a) ==
    LET i == CHOOSE k \in DOMAIN list : list[k] = a /\ \A j \in 1..(k - 1) : list[j] # a
    IN Pop(list, i)

\* One turn of the loop of lines 104-135 that places the candidate.  Beside the
\* keys of the activity dict the record keeps arrival (the datetime
\* arrival_time) and travel_secs, which the dict only has formatted, and what
\* the distance matrix reported.
PlaceActivity ==
    /\ pc = "walk"
    /\ day_attractions # <<>>
    /\ LET attraction == Head(day_attractions)
           duration == DwellMinutes(visit_info_cache, attraction)
       IN /\ ~OverWindow(current_time, duration, Combine(day, args.end_time))
          /\ \E response \in DistanceResponses(1) :
               LET travel == get_travel_time(response)
                   arrival_time == current_time + travel
               IN /\ schedule' = [schedule EXCEPT !.activities = Append(@,
                        [start_time |-> HHMM(arrival_time),
                         attraction |-> attraction,
                         duration |-> duration,
                         optimal_time |-> ActivityOptimalTime(visit_info_cache, attraction),
                         travel_time |-> FormatMinutes(travel),
                         arrival |-> arrival_time,
                         travel_secs |-> travel,
                         reported |-> Reported(response)])]
                  /\ unscheduled_attractions' = RemoveFirst(unscheduled_attractions, attraction)
                  /\ current_time' = arrival_time + duration * 60
                  /\ current_location' = Location(attraction)
          /\ day_attractions' = Tail(day_attractions)
    /\ UNCHANGED <<inputVars, estimateVars, extractVars, pc, caller, cacheVars, prefetchVars, directs,
                   daily_schedules, accomodation_location, day, grouped,
                   sorted_result, sort_current, durations, result>>

\* line 137 without its comparison of the two locations
ReturnsFromAnywhere(flag, location, accomodation, activities) ==
    flag /\ activities # <<>>

\* the condition of line 137
ReturnsToAccomodation(flag, location, accomodation, activities) ==
    flag /\ location # accomodation /\ activities # <<>>

\* The loop of lines 104-135 ends (every candidate walked, or the break of
\* line 113), then lines 137-151: the return leg and the day's schedule.
FinishDay ==
    /\ pc = "walk"
    /\ \/ day_attractions = <<>>
       \/ /\ day_attractions # <<>>
          /\ OverWindow(current_time,
                        DwellMinutes(visit_info_cache, Head(day_attractions)),
                        Combine(day, args.end_time))
    /\ IF ReturnsToAccomodation(args.return_to_accomodation, current_location,
                                accomodation_location, schedule.activities)
       THEN \E response \in DistanceResponses(1) :
              LET travel_back == get_travel_time(response)
                  end_time_with_travel == current_time + travel_back
              IN daily_schedules' = Append(daily_schedules,
                    [schedule EXCEPT !.has_return = TRUE,
                                     !.departure_time = HHMM(current_time),
                                     !.return_travel = FormatMinutes(travel_back),
                                     !.arrival_time = HHMM(end_time_with_travel),
                                     !.return_secs = travel_back,
                                     !.return_reported = Reported(response),
                                     !.end_of_walk = current_time])
       ELSE daily_schedules' = Append(daily_schedules,
                                      [schedule EXCEPT !.end_of_walk = current_time])
    /\ day' = day + 1
    /\ pc' = "day"
    \* the day's locals are dead until line 72 and 94 set them again
    /\ day_attractions' = <<>>
    /\ schedule' = NoSchedule
    /\ current_time' = 0
    /\ current_location' = Hotel
    /\ sort_current' = Hotel
    /\ UNCHANGED <<inputVars, estimateVars, extractVars, caller, cacheVars, prefetchVars, directs,
                   unscheduled_attractions, accomodation_location, grouped,
                   sorted_result, durations, result>>

\* ---------------------------------------------------------------- initially

\* an optimizer on which no call is running
NoCallRunning ==
    /\ pc = "idle"
    /\ caller = "none"
    /\ tasks = <<>>
    /\ next_i = 0
    /\ inflight = {}
    /\ finished = {}
    /\ place_calls = [k \in CacheKeys |-> 0]
    /\ cache_writes = [k \in CacheKeys |-> 0]
    /\ llm_calls = 0
    /\ first_return = <<>>
    /\ last_return = <<>>
    /\ directs = 0
    /\ unscheduled_attractions = <<>>
    /\ daily_schedules = <<>>
    /\ accomodation_location = Hotel
    /\ day = 0
    /\ schedule = NoSchedule
    /\ current_time = 0
    /\ current_location = Hotel
    /\ grouped = <<>>
    /\ sorted_result = <<>>
    /\ sort_current = Hotel
    /\ durations = <<>>
    /\ day_attractions = <<>>
    /\ result = [kind |-> "none", plans |-> <<>>]

\* a fresh optimizer: __init__ leaves the cache empty (line 31)
InitState ==
    /\ NoCallRunning
    /\ visit_info_cache = <<>>

\* no call of estimate_visit_duration on its own
NotCalled == -1

NoEstimateCall ==
    /\ est_attraction = [types |-> {}, name |-> {}, user_ratings_total |-> 0]
    /\ est_result = NotCalled

NoExtractCall ==
    /\ ext_reviews = <<>>
    /\ ext_result = NotCalled

DefaultArgs == [attractions |-> <<>>, dates_ok |-> TRUE, start_date |-> 0,
                end_date |-> 0, accomodation_location |-> Hotel,
                start_time |-> 9 * 3600,
                end_time |-> 21 * 3600, return_to_accomodation |-> TRUE]

\* The pools handed to prefetch_visit_info on its own: entries may repeat.  The
\* coroutines of one batch run in any order (RunTask), so the pools are listed
\* in ascending order of the objects' names only.
PrefetchPools ==
    {s \in SeqsUpTo(Pois, MaxPoolP) : \A i, j \in DOMAIN s : i < j => s[i] <= s[j]}

\* what gmaps.place can do in a run of prefetch_visit_info on its own: fail in
\* one way for some calls and answer in one way for the others
PrefetchMenus ==
    { {r \in PlaceResponses : r.status = "raise" \/ r.reviews_duration # 0},
      {r \in PlaceResponses : r.status = "malformed" \/ r.rating10 # 0} }

InitPrefetch ==
    /\ InitState
    /\ NoEstimateCall
    /\ NoExtractCall
    /\ \E pool \in PrefetchPools :
          args = [DefaultArgs EXCEPT !.attractions = pool]
    /\ hashable = FALSE
    /\ llm_client \in BOOLEAN
    /\ place_menu \in PrefetchMenus

NextPrefetch ==
    \/ DirectPrefetch
    \/ GatherBatch
    \/ RunTask
    \/ PrefetchReturns
    \/ DirectGetVisitInfo

SpecPrefetch == InitPrefetch /\ [][NextPrefetch]_vars

\* ------------------------------------ estimate_visit_duration on its own
\* the category tags estimate_visit_duration looks for, and one it does not
Tags == {"museum", "art_gallery", "park", "zoo", "aquarium", "amusement_park",
         "theme_park", "beach", "shopping_mall", "restaurant", "cafe",
         "landmark", "monument", "point_of_interest"}

\* the words it looks for in the lowered name
NameKeywords == {"historic", "castle", "palace", "cathedral", "church",
                 "temple", "shrine", "garden"}

\* rating counts around the thresholds of lines 647-686; 0 also stands for an
\* absent key
RatingCounts == {0, 999, 1000, 4999, 5000, 9999, 10000}

\* the attractions tried, by the keys read at lines 643-645; an absent key
\* reads as its default ("" / [] / 0)
EstimateInputs ==
    [types : {t \in SUBSET Tags : Cardinality(t) <= MaxTags},
     name : {w \in SUBSET NameKeywords : Cardinality(w) <= MaxWords},
     user_ratings_total : RatingCounts]

InitEstimate ==
    /\ InitState
    /\ args = DefaultArgs
    /\ hashable = FALSE
    /\ llm_client = FALSE
    /\ place_menu = {}
    /\ est_attraction \in EstimateInputs
    /\ est_result = NotCalled
    /\ NoExtractCall

\* estimate_visit_duration(est_attraction) returns
EstimateCall ==
    /\ est_result = NotCalled
    /\ est_result' = EstimateDuration(est_attraction.types, est_attraction.name,
                                      est_attraction.user_ratings_total)
    /\ UNCHANGED <<inputVars, pc, caller, cacheVars, prefetchVars, directs, dayVars,
                   est_attraction, extractVars>>

NextEstimate == EstimateCall

SpecEstimate == InitEstimate /\ [][NextEstimate]_vars

\* ------------------------------ extract_duration_from_reviews on its own
\* time_keywords in the order the dict is gone over, with the multipliers as
\* seconds (the code has hours: 1.0, 6.0, 0.5, 4.0 and 1/60)
time_keywords ==
    << <<"hour", 3600>>, <<"hours", 3600>>, <<"hr", 3600>>, <<"hrs", 3600>>,
       <<"all day", 21600>>, <<"half an hour", 1800>>, <<"half day", 14400>>,
       <<"minutes", 60>> >>

\* keyword in word, for the words of the reviews tried: a word holds no blank,
\* so a keyword of several words is in none
KeywordInWord(keyword, word) ==
    CASE word = "hour" -> keyword = "hour"
      [] word = "hours" -> keyword \in {"hour", "hours"}
      [] word = "hr" -> keyword = "hr"
      [] word = "hrs" -> keyword \in {"hr", "hrs"}
      [] word = "three" -> keyword = "hr"
      [] word = "minutes" -> keyword = "minutes"
      [] OTHER -> FALSE

\* a word that is neither a float literal nor a key of number_words
NoNumber == -1

\* float(word), or number_words[word] after the ValueError
NumberOf(word) ==
    CASE word = "1" -> 1
      [] word = "2" -> 2
      [] word = "3" -> 3
      [] word = "30" -> 30
      [] word = "one" -> 1
      [] word = "two" -> 2
      [] word = "three" -> 3
      [] OTHER -> NoNumber

\* The loop of lines 296-308 for one review and one keyword: the durations it
\* appends.  It stops at the first word that holds the keyword behind a number.
KeywordMatches(words, keyword, multiplier) ==
    LET hits == {i \in 2..Len(words) :
                    /\ KeywordInWord(keyword, words[i])
                    /\ NumberOf(words[i - 1]) # NoNumber}
    IN IF \E i \in 1..Len(words) : KeywordInWord(keyword, words[i])
       THEN IF hits = {} THEN <<>>
            ELSE LET i == CHOOSE h \in hits : \A g \in hits : h <= g
                 IN <<NumberOf(words[i - 1]) * multiplier>>
       ELSE <<>>

RECURSIVE ReviewMatches(_, _)
\* lines 293-308 for one review, from keyword number k on
ReviewMatches(words, k) ==
    IF k > Len(time_keywords) THEN <<>>
    ELSE KeywordMatches(words, time_keywords[k][1], time_keywords[k][2])
            \o ReviewMatches(words, k + 1)

RECURSIVE CollectDurations(_)
\* the list durations after the loop of line 291
CollectDurations(reviews) ==
    IF reviews = <<>> THEN <<>>
    ELSE ReviewMatches(Head(reviews), 1) \o CollectDurations(Tail(reviews))

RECURSIVE Sorted(_)
\* durations.sort()
Sorted(s) ==
    IF s = <<>> THEN <<>>
    ELSE LET i == CHOOSE k \in DOMAIN s : \A j \in DOMAIN s : s[k] <= s[j]
         IN <<s[i]>> \o Sorted(Pop(s, i))

RECURSIVE Sum(_)
Sum(s) == IF s = <<>> THEN 0 ELSE Head(s) + Sum(Tail(s))

\* return None
NoDuration == 0

\* lines 309-318: the element at len // 2 of the sorted list from three matches
\* on, the mean of one or two, None without any.  The values are multiples of
\* 60 seconds, so the mean of two is whole.
DurationOf(matches) ==
    IF Len(matches) >= 3 THEN Sorted(matches)[(Len(matches) \div 2) + 1]
    ELSE IF matches # <<>> THEN Sum(matches) \div Len(matches)
    ELSE NoDuration

extract_duration_from_reviews(reviews) == DurationOf(CollectDurations(reviews))

\* The review texts tried, lowered and split into words: a number or another
\* word, then a unit; and a text that mentions no time.
ReviewTexts ==
    {<<n, u>> : n \in {"1", "2", "3", "two", "an"},
                u \in {"hour", "hours", "hrs", "minutes"}}
    \cup {<<"nice">>}

InitExtract ==
    /\ InitState
    /\ NoEstimateCall
    /\ args = DefaultArgs
    /\ hashable = FALSE
    /\ llm_client = FALSE
    /\ place_menu = {}
    /\ ext_reviews \in SeqsUpTo(ReviewTexts, MaxReviews)
    /\ ext_result = NotCalled

\* extract_duration_from_reviews(ext_reviews) returns
ExtractCall ==
    /\ ext_result = NotCalled
    /\ ext_result' = extract_duration_from_reviews(ext_reviews)
    /\ UNCHANGED <<inputVars, pc, caller, cacheVars, prefetchVars, directs, dayVars,
                   estimateVars, ext_reviews>>

NextExtract == ExtractCall

SpecExtract == InitExtract /\ [][NextExtract]_vars

\* the daily windows tried: the default one, and a late one of 2.5 hours
Windows == { <<9 * 3600, 21 * 3600>>, <<21 * 3600, 23 * 3600 + 1800>> }

\* The pools handed to execute: pairwise different attractions.  execute reads
\* the pool's order at line 64 alone (attractions[0], when no accommodation is
\* given); everywhere else the pool goes through gather or through the set of
\* line 84.  So the first entry is any attraction when the accommodation
\* defaults, and the other entries are listed in ascending order of their names.
ExecutePools(acc) ==
    {s \in DistinctSeqs(Pois, MaxPool) :
        \A i, j \in DOMAIN s : (i < j /\ (acc # NoLocation \/ i > 1)) => s[i] < s[j]}

\* One execute call on a fresh optimizer.
Init ==
    /\ InitState
    /\ NoEstimateCall
    /\ NoExtractCall
    /\ \E acc \in {NoLocation, Hotel} :
       \E pool \in ExecutePools(acc),
          ok \in BOOLEAN,
          last \in (-1)..(MaxDays - 1),
          w \in Windows,
          ret \in BOOLEAN :
          args = [attractions |-> pool, dates_ok |-> ok, start_date |-> 0,
                  end_date |-> last, accomodation_location |-> acc,
                  start_time |-> w[1], end_time |-> w[2],
                  return_to_accomodation |-> ret]
    /\ hashable \in BOOLEAN
    /\ llm_client = TRUE
    /\ place_menu \in {{r} : r \in PlaceResponses}

\* ------------------------------ execute on an optimizer used before
\* optimal_time notes a Visit Profile can carry: what the pattern of line 618
\* yields for an LLM answer, and the default
WarmNotes == {"Morning is recommended", "Afternoon is recommended",
              DefaultOptimalTime}

\* the caches an optimizer can hold when execute is called on it again with
\* the given pool: for some of the pool's POIs a Visit Profile under the key
\* get_visit_info files it under, with the dwell get_visit_info stores (C12).
\* The note filed under 'unkown' is never read by execute: the default stands
\* for any.
WarmCaches(pool) ==
    LET profiles(K) ==
            [ {GetPlaceId(a, "unkown") : a \in K} ->
                [recommended_duration : {estimate_visit_duration(a) : a \in K},
                 optimal_time : WarmNotes] ]
    IN UNION { {cache \in profiles(K) :
                   \A a \in K :
                      /\ cache[GetPlaceId(a, "unkown")].recommended_duration
                            = estimate_visit_duration(a)
                      /\ ~HasPlaceId(a) =>
                            cache[GetPlaceId(a, "unkown")].optimal_time = DefaultOptimalTime} :
               K \in SUBSET Range(pool) }

\* the daily windows tried on it: starting in the morning and in the afternoon
WarmWindows == { <<9 * 3600, 21 * 3600>>, <<13 * 3600, 21 * 3600>> }

\* One execute call, for a trip of one day, on an optimizer whose cache holds
\* Visit Profiles already.
InitWarm ==
    /\ NoCallRunning
    /\ NoEstimateCall
    /\ NoExtractCall
    /\ \E pool \in ExecutePools(Hotel), w \in WarmWindows :
          /\ args = [attractions |-> pool, dates_ok |-> TRUE, start_date |-> 0,
                     end_date |-> 0, accomodation_location |-> Hotel,
                     start_time |-> w[1], end_time |-> w[2],
                     return_to_accomodation |-> TRUE]
          /\ visit_info_cache \in WarmCaches(pool)
    /\ hashable \in BOOLEAN
    /\ llm_client = TRUE
    \* gmaps.place answers, with reviews that tell a duration
    /\ place_menu = {r \in PlaceResponses : r.status = "ok" /\ r.reviews_duration # 0}

Next ==
    \/ ExecuteStart
    \/ GatherBatch
    \/ RunTask
    \/ ExecuteAfterPrefetch
    \/ ReturnSchedules
    \/ ViableRaisesTypeError
    \/ DayBegins
    \/ SortStep
    \/ SortRaises
    \/ PlaceActivity
    \/ FinishDay

Spec == Init /\ [][Next]_vars

SpecWarm == InitWarm /\ [][Next]_vars

\* One execute call on a fresh optimizer, with an accommodation given and a
\* return to it asked for; gmaps.place raises or answers.
InitFair ==
    /\ InitState
    /\ NoEstimateCall
    /\ NoExtractCall
    /\ \E pool \in ExecutePools(Hotel),
          ok \in BOOLEAN,
          last \in (-1)..(MaxDays - 1),
          w \in Windows :
          args = [attractions |-> pool, dates_ok |-> ok, start_date |-> 0,
                  end_date |-> last, accomodation_location |-> Hotel,
                  start_time |-> w[1], end_time |-> w[2],
                  return_to_accomodation |-> TRUE]
    /\ hashable \in BOOLEAN
    /\ llm_client = TRUE
    /\ place_menu \in {{r} : r \in {x \in PlaceResponses :
                                      x.status = "raise" \/ x.reviews_duration # 0}}

\* execute under an event loop that keeps running what can run, with
\* collaborators that return or fail: some step of the call is always taken
\* while one is possible
SpecFair == InitFair /\ [][Next]_vars /\ WF_vars(Next)

\* ===================================================================== claims
\* the Day Plans built so far, the one under construction included
PlansSoFar ==
    IF pc = "done" THEN result.plans
    ELSE IF pc \in {"sort", "walk"} THEN Append(daily_schedules, schedule)
    ELSE daily_schedules

\* the Day Plans whose day is over
CompletedPlans == IF pc = "done" THEN result.plans ELSE daily_schedules

\* the attractions of the Activities of a sequence of Day Plans, in order
RECURSIVE ScheduledIn(_)
ScheduledIn(plans) ==
    IF plans = <<>> THEN <<>>
    ELSE [i \in DOMAIN Head(plans).activities |-> Head(plans).activities[i].attraction]
         \o ScheduledIn(Tail(plans))

\* the day number of a Day Plan, and the end of its window
DayOf(plan) == plan.date - args.start_date
WindowEnd(plan) == DayOf(plan) * 86400 + args.end_time

\* C1: every POI placed in an Activity of any Day Plan comes from the input
\* pool, and no POI is placed in more than one Activity of the trip.
C1_ScheduledOnceFromPool ==
    LET placed == ScheduledIn(PlansSoFar)
    IN /\ \A i \in DOMAIN placed : placed[i] \in Range(args.attractions)
       /\ \A i, j \in DOMAIN placed : i # j => placed[i] # placed[j]

\* a trip that placed POIs on two different days
C1_Witness ==
    /\ pc = "done"
    /\ result.kind = "plans"
    /\ Len(result.plans) >= 2
    /\ result.plans[1].activities # <<>>
    /\ result.plans[2].activities # <<>>

\* C2: in every Day Plan returned by execute the Activities are in
\* non-decreasing order of their start time (the "%H:%M" value the Activity
\* carries), whatever the travel times and dwells.
C2_ActivitiesSortedByStart ==
    pc = "done" =>
        \A d \in DOMAIN result.plans :
            LET acts == result.plans[d].activities
            IN \A i, j \in DOMAIN acts : i < j => acts[i].start_time <= acts[j].start_time

\* C3: a 2-day trip with the single POI of dwell 1.0 h, window 09:00-21:00,
\* return policy on, the accommodation elsewhere and every travel time 15
\* minutes yields two Day Plans: day 1 with one Activity 09:15-10:15 and a
\* Return Leg 10:15-10:30, day 2 with no Activity and a note.
C3_Scenario ==
    /\ args.attractions = <<1>>
    /\ args.dates_ok
    /\ args.start_date = 0
    /\ args.end_date = 1
    /\ args.start_time = 9 * 3600
    /\ args.end_time = 21 * 3600
    /\ args.return_to_accomodation
    /\ args.accomodation_location = Hotel
    /\ \A d \in DOMAIN result.plans :
          /\ \A i \in DOMAIN result.plans[d].activities :
                result.plans[d].activities[i].travel_secs = 15 * 60
          /\ result.plans[d].has_return => result.plans[d].return_secs = 15 * 60

C3_EndToEnd ==
    (pc = "done" /\ C3_Scenario) =>
        /\ result.kind = "plans"
        /\ Len(result.plans) = 2
        /\ Len(result.plans[1].activities) = 1
        /\ result.plans[1].activities[1].attraction = 1
        /\ result.plans[1].activities[1].start_time = 9 * 60 + 15
        /\ result.plans[1].activities[1].start_time
              + result.plans[1].activities[1].duration = 10 * 60 + 15
        /\ result.plans[1].has_return
        /\ result.plans[1].departure_time = 10 * 60 + 15
        /\ result.plans[1].arrival_time = 10 * 60 + 30
        /\ result.plans[2].activities = <<>>
        /\ result.plans[2].note # ""

\* C4: execute produces at most endDate - startDate + 1 Day Plans, one per
\* consecutive date from startDate on, none for a day that begins with an
\* empty remaining pool; it produces fewer only when the pool ran empty.
C4_DayPlansUntilPoolEmpty ==
    LET plans == PlansSoFar
        days == DurationDays(args.start_date, args.end_date)
    IN /\ Len(plans) <= (IF days > 0 THEN days ELSE 0)
       /\ \A i \in DOMAIN plans : plans[i].date = args.start_date + i - 1
       /\ \A i \in DOMAIN plans : plans[i].pool_at_start # <<>>
       /\ (pc = "done" /\ result.kind = "plans" /\ Len(plans) < days)
             => unscheduled_attractions = <<>>

\* a trip that stopped before its last day, after at least one Day Plan
C4_Witness ==
    /\ pc = "done"
    /\ result.kind = "plans"
    /\ Len(result.plans) >= 1
    /\ Len(result.plans) < DurationDays(args.start_date, args.end_date)

\* C5: when the only POI left in the pool has a dwell with cursor + dwell past
\* the window end, the day ends without placing it and it is still in the pool
\* when the next day starts (or the trip ends with it unscheduled).
C5_TooLongPoiStaysInPool ==
    [][ ( /\ pc = "walk"
          /\ Len(unscheduled_attractions) = 1
          /\ day_attractions # <<>>
          /\ current_time
                + DwellMinutes(visit_info_cache, Head(day_attractions)) * 60
                > day * 86400 + args.end_time )
        => ( /\ pc' = "day"
             /\ day' = day + 1
             /\ unscheduled_attractions' = unscheduled_attractions
             /\ Head(day_attractions) \in Range(unscheduled_attractions')
             /\ Len(daily_schedules') = Len(daily_schedules) + 1
             /\ \A i \in DOMAIN daily_schedules'[Len(daily_schedules')].activities :
                   daily_schedules'[Len(daily_schedules')].activities[i].attraction
                      # Head(day_attractions) ) ]_vars

\* two days in a row began with the same single POI and placed nothing
C5_Witness ==
    /\ Len(daily_schedules) = 2
    /\ Len(daily_schedules[1].pool_at_start) = 1
    /\ daily_schedules[1].activities = <<>>
    /\ daily_schedules[2].pool_at_start = daily_schedules[1].pool_at_start
    /\ daily_schedules[2].activities = <<>>
    /\ unscheduled_attractions = daily_schedules[1].pool_at_start

\* C6 as stated: the last Activity's end (start + dwell), plus the return
\* travel when there is a Return Leg, is not after the day's window end.
C6_LastActivityEndsInWindow ==
    \A d \in DOMAIN CompletedPlans :
        LET plan == CompletedPlans[d]
            acts == plan.activities
        IN acts # <<>> =>
             acts[Len(acts)].arrival + acts[Len(acts)].duration * 60
                + (IF plan.has_return THEN plan.return_secs ELSE 0)
                <= WindowEnd(plan)

\* C6 amended: the last Activity's end is not after the window end plus the
\* travel time that led to that Activity (the window test is made on the
\* cursor before travelling); a Return Leg arrives its travel time after that
\* end.
C6_LastActivityEndsInWindowPlusTravel ==
    \A d \in DOMAIN CompletedPlans :
        LET plan == CompletedPlans[d]
            acts == plan.activities
        IN acts # <<>> =>
             /\ acts[Len(acts)].arrival + acts[Len(acts)].duration * 60
                   <= WindowEnd(plan) + acts[Len(acts)].travel_secs
             /\ plan.end_of_walk = acts[Len(acts)].arrival + acts[Len(acts)].duration * 60
             /\ plan.has_return =>
                   /\ plan.departure_time = HHMM(plan.end_of_walk)
                   /\ plan.arrival_time = HHMM(plan.end_of_walk + plan.return_secs)

\* a Day Plan with a Return Leg whose last Activity ends after the window end
C6_Witness ==
    \E d \in DOMAIN CompletedPlans :
        LET plan == CompletedPlans[d]
            acts == plan.activities
        IN /\ acts # <<>>
           /\ plan.has_return
           /\ acts[Len(acts)].arrival + acts[Len(acts)].duration * 60 > WindowEnd(plan)

\* a get_visit_info call ran in this step
Ran == finished' # finished \/ directs' # directs

\* C7: once get_visit_info has completed for an identity, a later call for it
\* makes no place-details call and no LLM query, leaves the cache as it is and
\* returns what the first call returned; no identity ever gets a second
\* place-details call.
C7_CacheIdempotence ==
    /\ [](\A k \in DOMAIN place_calls : place_calls[k] <= 1)
    /\ [][ (Ran /\ last_return'[1] \in DOMAIN visit_info_cache)
           => ( /\ visit_info_cache' = visit_info_cache
                /\ place_calls' = place_calls
                /\ llm_calls' = llm_calls
                /\ last_return'[2] = first_return[last_return'[1]] ) ]_vars

\* two calls for one identity have completed, with one place-details call
C7_Witness ==
    /\ \E t, u \in finished :
          /\ t # u
          /\ tasks[t] = tasks[u]
          /\ HasPlaceId(tasks[t])
          /\ place_calls[PlaceIdValue(tasks[t])] = 1
    /\ directs = 1
    /\ last_return[1] \in DOMAIN visit_info_cache

\* the batch number of task t
BatchOf(t) == (t - 1) \div BatchSize

\* C8: never more than 5 enrichment requests in flight, and no request of a
\* later batch has started while a request of an earlier batch is unfinished.
C8_BatchesOfFive ==
    /\ Cardinality(inflight) <= BatchSize
    /\ \A t \in inflight \cup finished :
          \A u \in DOMAIN tasks : BatchOf(u) < BatchOf(t) => u \in finished

\* the second batch is in flight after a first batch of five completed
C8_Witness ==
    /\ Len(tasks) > BatchSize
    /\ finished = 1..BatchSize
    /\ inflight # {}

\* C9: whatever the order in which the coroutines of a batch run, an identity
\* has a single writer (one place-details call and one cache assignment, also
\* when several pool entries carry it), and a cache assignment goes to the key
\* that is the writer's own identity.
C9_SingleWriter ==
    /\ [](\A k \in DOMAIN cache_writes : cache_writes[k] <= 1 /\ place_calls[k] <= 1)
    /\ [][ \A k \in DOMAIN cache_writes :
              cache_writes'[k] # cache_writes[k] =>
                 /\ k = last_return'[1]
                 /\ HasPlaceId(last_return'[3]) => k = PlaceIdValue(last_return'[3]) ]_vars

\* one batch ran two coroutines for one identity and one for another identity
C9_Witness ==
    \E t, u, v \in finished :
        /\ t # u
        /\ BatchOf(t) = BatchOf(u)
        /\ BatchOf(v) = BatchOf(t)
        /\ tasks[t] = tasks[u]
        /\ HasPlaceId(tasks[t])
        /\ HasPlaceId(tasks[v])
        /\ tasks[v] # tasks[t]
        /\ cache_writes[PlaceIdValue(tasks[t])] = 1
        /\ cache_writes[PlaceIdValue(tasks[v])] = 1

\* C10: get_visit_info returns (it does not raise) whatever the place-details
\* and LLM collaborators do, and when it has returned the cache holds, for the
\* POI's key, the Visit Profile it returned, with a recommended duration above
\* zero and an optimal-time note.
C10_EnrichmentNeverRaises ==
    [][ Ran =>
          LET place_id == last_return'[1]
          IN /\ last_return'[2] # Raised
             /\ place_id \in DOMAIN visit_info_cache'
             /\ last_return'[2] = visit_info_cache'[place_id]
             /\ "recommended_duration" \in DOMAIN visit_info_cache'[place_id]
             /\ visit_info_cache'[place_id].recommended_duration > 0
             /\ "optimal_time" \in DOMAIN visit_info_cache'[place_id]
             /\ visit_info_cache'[place_id].optimal_time # "" ]_vars

\* the cache holds an entry made while the place-details call failed
C10_Witness ==
    \E k \in DOMAIN visit_info_cache :
        "recommeded_duration" \notin DOMAIN visit_info_cache[k]

\* the gmaps.place call of this step answered: line 195 was reached, which
\* leaves its key in the dict
PlaceAnswered(visit_info) ==
    visit_info # Raised /\ "recommeded_duration" \in DOMAIN visit_info

\* C11: when an LLM client is configured and the place-details call of a
\* get_visit_info run succeeds, that run issues one LLM query (whose parsed
\* fields then replace those of the stored Visit Profile).
C11_LlmQueriedOnce ==
    [][ ( /\ Ran
          /\ llm_client
          /\ place_calls' # place_calls
          /\ PlaceAnswered(last_return'[2]) )
        => llm_calls' = llm_calls + 1 ]_vars

\* C12: in a trip whose place-details calls all answer reviews in which the
\* duration extractor finds a value, and with no LLM query made, every cached
\* Visit Profile has that value as its recommended duration and every
\* Activity has it as its dwell.
C12_ReviewDurationUsed ==
    \A r \in place_menu :
        (place_menu = {r} /\ r.status = "ok" /\ r.reviews_duration # 0 /\ llm_calls = 0) =>
            /\ \A k \in DOMAIN visit_info_cache :
                  visit_info_cache[k].recommended_duration = r.reviews_duration
            /\ \A d \in DOMAIN PlansSoFar :
                  \A i \in DOMAIN PlansSoFar[d].activities :
                      PlansSoFar[d].activities[i].duration = r.reviews_duration

\* C13: get_travel_time does not raise (a step of the walk that looks a travel
\* time up never ends in the error result) and gives 30 minutes whenever the
\* distance matrix raised or answered without rows, elements or duration, and
\* the reported seconds / 60 otherwise; both for the travel to an Activity and
\* for the Return Leg.
C13_TravelTimeFallback ==
    /\ [](\A d \in DOMAIN PlansSoFar :
            LET plan == PlansSoFar[d]
            IN /\ \A i \in DOMAIN plan.activities :
                    LET act == plan.activities[i]
                    IN /\ act.reported = NoAnswer =>
                            act.travel_secs = 30 * 60 /\ act.travel_time = 30
                       /\ act.reported # NoAnswer =>
                            /\ act.travel_secs = act.reported
                            /\ act.travel_time = FormatMinutes(act.reported)
               /\ plan.has_return =>
                    /\ plan.return_reported = NoAnswer =>
                            plan.return_secs = 30 * 60 /\ plan.return_travel = 30
                    /\ plan.return_reported # NoAnswer =>
                            plan.return_secs = plan.return_reported)
    /\ [][pc = "walk" => result'.kind # "error"]_vars

\* a returned Day Plan with an Activity reached after a failed lookup, one
\* reached after an answered lookup, and a Return Leg after a failed lookup
C13_Witness ==
    /\ pc = "done"
    /\ \E d \in DOMAIN result.plans :
          LET plan == result.plans[d]
          IN /\ \E i \in DOMAIN plan.activities : plan.activities[i].reported = NoAnswer
             /\ \E i \in DOMAIN plan.activities : plan.activities[i].reported # NoAnswer
             /\ plan.has_return
             /\ plan.return_reported = NoAnswer

\* the error results that a failing collaborator call made execute return
CollaboratorErrors ==
    {"gmaps.place", "gmaps.distance_matrix", "KeyError: distance matrix answer"}

\* C14: no failure of a collaborator call (place details, LLM, distance
\* matrix, the lookups of the per-day proximity ordering included) makes
\* execute return an error result.
C14_CollaboratorFailureNeverAborts ==
    (pc = "done" /\ result.kind = "error") => result.error \notin CollaboratorErrors

\* C15: for an unparsable date or an empty pool execute returns an error
\* value, not a list of Day Plans (and it returns: it never raises).
C15_InvalidInputGivesError ==
    (pc = "done" /\ (~args.dates_ok \/ args.attractions = <<>>)) =>
        result.kind = "error"

\* C16: with parsable dates, endDate >= startDate, a non-empty pool of POIs
\* that each have an identity and a coordinate, and no collaborator failing,
\* execute returns a sequence of Day Plans and not an error value.
C16_ValidInputGivesPlans ==
    ( /\ pc = "done"
      /\ args.dates_ok
      /\ args.end_date >= args.start_date
      /\ args.attractions # <<>>
      /\ \A i \in DOMAIN args.attractions : HasPlaceId(args.attractions[i])
      /\ \A r \in place_menu : r.status = "ok"
      /\ result.kind = "error" => result.error \notin CollaboratorErrors )
    => result.kind = "plans"

\* the start location of the trip's days: the accommodation given, or the
\* first POI's coordinate when none is given (line 64)
StartLocation ==
    IF args.accomodation_location = NoLocation /\ args.attractions # <<>>
    THEN Location(args.attractions[1])
    ELSE args.accomodation_location

\* C17: a finished Day Plan has a Return Leg exactly when the return policy is
\* on, the day has an Activity and the last Activity's coordinate is not the
\* start location; the leg departs at the end (start + dwell) of the last
\* Activity and arrives the resolver's travel time later.
C17_ReturnLegIff ==
    \A d \in DOMAIN CompletedPlans :
        LET plan == CompletedPlans[d]
            acts == plan.activities
            last == acts[Len(acts)]
        IN /\ plan.has_return <=>
                 /\ args.return_to_accomodation
                 /\ acts # <<>>
                 /\ Location(last.attraction) # StartLocation
           /\ plan.has_return =>
                 /\ plan.departure_time = HHMM(last.arrival + last.duration * 60)
                 /\ plan.return_secs = get_travel_time(
                        [status |-> IF plan.return_reported = NoAnswer THEN "raise" ELSE "ok",
                         value |-> <<plan.return_reported>>])
                 /\ plan.arrival_time =
                        HHMM(last.arrival + last.duration * 60 + plan.return_secs)

\* a trip with the policy on whose first day ends at the start location (no
\* Return Leg) and whose second day ends elsewhere (Return Leg)
C17_Witness ==
    /\ pc = "done"
    /\ result.kind = "plans"
    /\ Len(result.plans) = 2
    /\ args.return_to_accomodation
    /\ result.plans[1].activities # <<>>
    /\ ~result.plans[1].has_return
    /\ result.plans[2].has_return

\* C18: estimate_visit_duration returns a value above zero for every
\* attraction, whatever its category tags, name and rating count, also when
\* all three are absent.
C18_EstimatePositive ==
    est_result # NotCalled => est_result > 0

\* the estimate of an attraction with no tags, no name and no rating count
C18_Witness ==
    /\ est_result # NotCalled
    /\ est_attraction.types = {}
    /\ est_attraction.name = {}
    /\ est_attraction.user_ratings_total = 0

\* a trip is being scheduled, or has been returned
InTrip == pc \in {"day", "sort", "walk"} \/ (pc = "done" /\ result.kind = "plans")

\* C19: at every point of a trip the remaining pool and the POIs placed in
\* Activities are disjoint and together are the input pool; the remaining pool
\* changes exactly when an Activity is appended, by that Activity's POI; and
\* the POIs ordered for a day and not placed are in the remaining pool when
\* the day is over.
C19_PoolConservation ==
    /\ [](InTrip =>
            LET placed == ScheduledIn(PlansSoFar)
            IN /\ Range(unscheduled_attractions) \cap Range(placed) = {}
               /\ Range(unscheduled_attractions) \cup Range(placed)
                     = Range(args.attractions)
               /\ Len(unscheduled_attractions) + Len(placed) = Len(args.attractions))
    /\ [][ (pc = "day" /\ pc' = "sort") =>
              unscheduled_attractions = args.attractions \/ day > 0 ]_vars
    /\ [][ (pc = "walk" /\ pc' = "walk") =>
              /\ Len(schedule'.activities) = Len(schedule.activities) + 1
              /\ Range(unscheduled_attractions') = Range(unscheduled_attractions)
                    \ {schedule'.activities[Len(schedule'.activities)].attraction} ]_vars
    /\ [][ (pc = "walk" /\ pc' = "day") =>
              /\ unscheduled_attractions' = unscheduled_attractions
              /\ Range(day_attractions) \subseteq Range(unscheduled_attractions') ]_vars

\* between two days: a POI was placed on the first day and another, ordered
\* for that day too, is still in the remaining pool
C19_Witness ==
    /\ pc = "day"
    /\ day = 1
    /\ Len(daily_schedules) = 1
    /\ Len(daily_schedules[1].pool_at_start) >= 2
    /\ daily_schedules[1].activities # <<>>
    /\ unscheduled_attractions # <<>>

\* C20: every day starts with the cursor at the window start of that date and
\* the position at the start location; an Activity starts at the cursor before
\* it plus the travel time looked up for it, the cursor then is start + dwell
\* and the position the POI's coordinate; the dwell is the recommended
\* duration of the Visit Profile cached under the POI's identity.
C20_TimingFollowsCursor ==
    [][ /\ (pc = "day" /\ pc' = "sort") =>
              /\ current_time' = day * 86400 + args.start_time
              /\ current_location' = StartLocation
        /\ (pc = "sort" /\ pc' \in {"sort", "walk"}) =>
              /\ current_time' = current_time
              /\ current_location' = current_location
        /\ (pc = "walk" /\ pc' = "walk") =>
              LET act == schedule'.activities[Len(schedule'.activities)]
              IN /\ act.arrival = current_time + act.travel_secs
                 /\ act.start_time = HHMM(act.arrival)
                 /\ current_time' = act.arrival + act.duration * 60
                 /\ current_location' = Location(act.attraction)
                 /\ HasPlaceId(act.attraction) =>
                       /\ PlaceIdValue(act.attraction) \in DOMAIN visit_info_cache
                       /\ act.duration =
                            visit_info_cache[PlaceIdValue(act.attraction)].recommended_duration
      ]_vars

\* the walk of the second day has placed an Activity, after a first day with one
C20_Witness ==
    /\ pc = "walk"
    /\ day = 1
    /\ Len(schedule.activities) = 1
    /\ daily_schedules[1].activities # <<>>

\* C21: the walk stops at the first candidate of the day's order whose cursor +
\* dwell is past the window end: the day closes in that step with the
\* Activities it had, nothing is placed after that candidate on that day even
\* when a later candidate would fit, and every candidate still to be walked
\* stays in the pool.
C21_WalkStopsAtFirstMisfit ==
    [][ ( /\ pc = "walk"
          /\ day_attractions # <<>>
          /\ current_time
                + DwellMinutes(visit_info_cache, Head(day_attractions)) * 60
                > day * 86400 + args.end_time )
        => ( /\ pc' = "day"
             /\ Len(daily_schedules') = Len(daily_schedules) + 1
             /\ daily_schedules'[Len(daily_schedules')].activities = schedule.activities
             /\ \A i \in DOMAIN schedule.activities :
                   schedule.activities[i].attraction \notin Range(day_attractions)
             /\ unscheduled_attractions' = unscheduled_attractions
             /\ Range(day_attractions) \subseteq Range(unscheduled_attractions') ) ]_vars

\* a day closed with two candidates unplaced, one of which fits the whole
\* window while the other does not
C21_Witness ==
    /\ pc = "day"
    /\ daily_schedules # <<>>
    /\ LET plan == daily_schedules[Len(daily_schedules)]
       IN /\ plan.activities = <<>>
          /\ Len(plan.pool_at_start) >= 2
          /\ unscheduled_attractions = plan.pool_at_start
          /\ \E a \in Range(unscheduled_attractions) :
                args.start_time + DwellMinutes(visit_info_cache, a) * 60 <= args.end_time
          /\ \E a \in Range(unscheduled_attractions) :
                args.start_time + DwellMinutes(visit_info_cache, a) * 60 > args.end_time

\* the clock period an hour of the day falls in
ClockPeriod(hour) ==
    IF hour < 12 THEN "morning" ELSE IF hour < 17 THEN "afternoon" ELSE "evening"

\* the optimal-time note the cache holds for a POI ("" without an entry)
CachedNote(a) ==
    IF GetPlaceId(a, "unknown") \in DOMAIN visit_info_cache
    THEN visit_info_cache[GetPlaceId(a, "unknown")].optimal_time
    ELSE ""

C23_SortIsGroupedNearestNeighbour ==
    [][ /\ (pc = "day" /\ pc' = "sort") => sort_current' = current_location'
        /\ (pc = "sort" /\ pc' = "sort") =>
              LET group == Head(grouped).group
              IN /\ DOMAIN durations' = DOMAIN group
                 /\ \E i \in DOMAIN group :
                       /\ \A j \in DOMAIN group : durations'[i] <= durations'[j]
                       /\ sorted_result' = Append(sorted_result, group[i])
                       /\ sort_current' = Location(group[i])
                       /\ \A k \in DOMAIN grouped' :
                             group[i] \notin Range(grouped'[k].group)
        /\ (pc = "sort" /\ pc' = "walk") =>
              /\ Range(day_attractions') = Range(unscheduled_attractions)
              /\ Len(day_attractions') = Cardinality(Range(unscheduled_attractions))
              /\ SubSeq(day_attractions', 1, Len(sorted_result)) = sorted_result
              /\ \A i, j \in DOMAIN day_attractions' :
                    i < j => TimeScore(visit_info_cache, day_attractions'[i], CurrentHour)
                               >= TimeScore(visit_info_cache, day_attractions'[j], CurrentHour)
      ]_vars

\* an ordered list came back that holds two POIs of score 3, the one listed
\* later by its name first, before a POI of score 0
C23_Witness ==
    /\ pc = "walk"
    /\ schedule.activities = <<>>
    /\ Len(day_attractions) = 3
    /\ day_attractions[1] > day_attractions[2]
    /\ TimeScore(visit_info_cache, day_attractions[2], CurrentHour) = 3
    /\ TimeScore(visit_info_cache, day_attractions[3], CurrentHour) = 0

\* C24: prefetch_visit_info is entered once per execute call, from its start
\* and over the whole pool, leaving out the POIs cached already; the day loop
\* is entered only when every gathered coroutine has finished, so no Activity
\* exists while the prefetch runs; at that moment and during the whole day
\* loop the cache holds an entry for every POI of the pool; and the prefetch
\* neither asks the places service about a POI cached before it began nor
\* touches that POI's entry.
C24_PrefetchBeforeScheduling ==
    /\ [] ( pc = "prefetch" =>
               /\ daily_schedules = <<>>
               /\ schedule.activities = <<>> )
    /\ [] ( pc \in {"day", "sort", "walk"} =>
               \A a \in Range(args.attractions) :
                   GetPlaceId(a, "unkown") \in DOMAIN visit_info_cache )
    /\ [][ /\ (pc # "prefetch" /\ pc' = "prefetch") =>
                /\ pc = "idle"
                /\ \A a \in Range(args.attractions) :
                     HasPlaceId(a) =>
                        (a \in Range(tasks') <=> PlaceIdValue(a) \notin DOMAIN visit_info_cache)
           /\ (pc = "prefetch" /\ pc' = "day") =>
                /\ inflight = {}
                /\ finished = DOMAIN tasks
           /\ (pc = "prefetch") =>
                \A k \in DOMAIN visit_info_cache :
                    /\ k \in DOMAIN visit_info_cache'
                    /\ visit_info_cache'[k] = visit_info_cache[k]
                    /\ place_calls'[k] = place_calls[k]
         ]_vars

\* the first day is about to start after a prefetch that enriched one POI of
\* the pool and left alone another one, cached before
C24_Witness ==
    /\ pc = "day"
    /\ day = 0
    /\ daily_schedules = <<>>
    /\ \E a, b \in Range(args.attractions) :
          /\ HasPlaceId(a) /\ HasPlaceId(b)
          /\ cache_writes[PlaceIdValue(a)] = 1
          /\ place_calls[PlaceIdValue(a)] = 1
          /\ cache_writes[PlaceIdValue(b)] = 0
          /\ place_calls[PlaceIdValue(b)] = 0
          /\ PlaceIdValue(b) \in DOMAIN visit_info_cache

\* the candidates handed to the ordering, as a set
Grouped(groups) == UNION {Range(groups[i].group) : i \in DOMAIN groups}

\* C25: the opening-hours filter lets every POI through: a day that goes on
\* from the loop head hands the whole remaining pool to the ordering; the note
\* branch (a Day Plan added at the loop head) is taken only when the filter
\* leaves no candidate, and such a Day Plan has the note, no Activity, and the
\* pool is as it was.
C25_AlwaysOpenFilter ==
    /\ [] ( \A d \in DOMAIN PlansSoFar :
                PlansSoFar[d].note # "" => PlansSoFar[d].activities = <<>> )
    /\ [][ /\ (pc = "day" /\ pc' # "done") =>
                /\ pc' = "sort"
                /\ Grouped(grouped') = Range(unscheduled_attractions)
                /\ unscheduled_attractions' = unscheduled_attractions
           /\ (pc = "day" /\ pc' = "day") =>
                /\ \A x \in Range(unscheduled_attractions) :
                      ~is_open_on_date(visit_info_cache, x, args.start_date + day)
                /\ daily_schedules' = Append(daily_schedules,
                                             daily_schedules'[Len(daily_schedules')])
                /\ daily_schedules'[Len(daily_schedules')].note # ""
                /\ daily_schedules'[Len(daily_schedules')].activities = <<>>
                /\ unscheduled_attractions' = unscheduled_attractions
         ]_vars

\* the second day hands its whole pool of two POIs to the ordering, one of
\* them cached and one not
C25_Witness ==
    /\ pc = "sort"
    /\ day = 1
    /\ sorted_result = <<>>
    /\ Len(unscheduled_attractions) = 2
    /\ Grouped(grouped) = Range(unscheduled_attractions)
    /\ \E a, b \in Range(unscheduled_attractions) :
          /\ GetPlaceId(a, "unknown") \in DOMAIN visit_info_cache
          /\ GetPlaceId(b, "unknown") \notin DOMAIN visit_info_cache

\* the duration mentions of the reviews as a reader counts them: one for every
\* unit word that follows a number, in seconds
RECURSIVE Mentions(_)
Mentions(reviews) ==
    IF reviews = <<>> THEN <<>>
    ELSE LET words == Head(reviews)
             here == IF /\ Len(words) = 2
                        /\ NumberOf(words[1]) # NoNumber
                        /\ words[2] \in {"hour", "hours", "hrs", "minutes"}
                     THEN <<NumberOf(words[1])
                              * (IF words[2] = "minutes" THEN 60 ELSE 3600)>>
                     ELSE <<>>
         IN here \o Mentions(Tail(reviews))

\* C26: extract_duration_from_reviews returns the median of the duration
\* mentions of the reviews when there are three or more (one match per
\* mention), their mean when there are one or two, and None when there is
\* none: '1 hours' and '3 hours' give the mean, 2 hours.
C26_OneMatchPerMention ==
    ext_result # NotCalled => ext_result = DurationOf(Mentions(ext_reviews))

\* when an Activity ends: its start plus its dwell
EndOf(activity) == activity.arrival + activity.duration * 60

\* C27: in every Day Plan, finished or under construction, every Activity ends
\* no later than the window end plus the travel time that led to it, and every
\* Activity but the last ends no later than the window end.
C27_ActivitiesWithinWindowPlusTravel ==
    \A d \in DOMAIN PlansSoFar :
        LET plan == PlansSoFar[d]
            acts == plan.activities
        IN \A i \in DOMAIN acts :
              /\ EndOf(acts[i]) <= WindowEnd(plan) + acts[i].travel_secs
              /\ i < Len(acts) => EndOf(acts[i]) <= WindowEnd(plan)

\* a Day Plan of two Activities, the first ending within the window and the
\* second after its end
C27_Witness ==
    \E d \in DOMAIN PlansSoFar :
        LET acts == PlansSoFar[d].activities
        IN /\ Len(acts) = 2
           /\ EndOf(acts[1]) <= WindowEnd(PlansSoFar[d])
           /\ EndOf(acts[2]) > WindowEnd(PlansSoFar[d])

\* C28: a cache entry, once stored, is never changed, replaced or removed, by
\* prefetch_visit_info, get_visit_info or execute, also when execute runs on
\* an optimizer whose cache was filled by earlier calls; the day loop leaves
\* the whole cache as it is; and no key is assigned twice.
C28_CacheWriteOnce ==
    /\ [] ( \A k \in CacheKeys : cache_writes[k] <= 1 )
    /\ [][ /\ \A k \in DOMAIN visit_info_cache :
                /\ k \in DOMAIN visit_info_cache'
                /\ visit_info_cache'[k] = visit_info_cache[k]
                /\ cache_writes'[k] = cache_writes[k]
           /\ pc \in {"day", "sort", "walk"} => visit_info_cache' = visit_info_cache
         ]_vars

\* an execute call returned Day Plans; when it began the cache held the entry
\* of a POI without place_id, for which the prefetch made a coroutine all the
\* same, and the call stored the entry of another POI
C28_Witness ==
    /\ pc = "done"
    /\ result.kind = "plans"
    /\ result.plans # <<>>
    /\ \E a \in Range(args.attractions) :
          /\ ~HasPlaceId(a)
          /\ "unkown" \in DOMAIN visit_info_cache
          /\ cache_writes["unkown"] = 0
          /\ "unkown" \in DOMAIN first_return
    /\ \E k \in CacheKeys : cache_writes[k] = 1

\* C29: at the first candidate of a day's order (no Activity placed yet): when
\* its dwell is within the window length it is placed and leaves the pool,
\* which never grows again that day, so the day consumes at least one POI;
\* when its dwell exceeds the window length the day closes in that step with a
\* Day Plan without Activity, note or Return Leg, and the pool is as it was.
C29_ProgressPerDay ==
    [][ /\ (pc = "walk" /\ schedule.activities = <<>> /\ day_attractions # <<>>) =>
              LET first == Head(day_attractions)
                  dwell == DwellMinutes(visit_info_cache, first) * 60
              IN IF dwell <= args.end_time - args.start_time
                 THEN /\ pc' = "walk"
                      /\ Len(schedule'.activities) = 1
                      /\ schedule'.activities[1].attraction = first
                      /\ first \notin Range(unscheduled_attractions')
                      /\ Len(unscheduled_attractions') = Len(unscheduled_attractions) - 1
                 ELSE /\ pc' = "day"
                      /\ unscheduled_attractions' = unscheduled_attractions
                      /\ LET plan == daily_schedules'[Len(daily_schedules')]
                         IN /\ Len(daily_schedules') = Len(daily_schedules) + 1
                            /\ plan.activities = <<>>
                            /\ plan.note = ""
                            /\ ~plan.has_return
        /\ pc = "walk" => Range(unscheduled_attractions') \subseteq Range(unscheduled_attractions)
      ]_vars

\* a trip whose first day met a first candidate too long for the window and
\* placed nothing, and whose second day placed a POI of the same pool
C29_Witness ==
    /\ Len(daily_schedules) = 2
    /\ daily_schedules[1].pool_at_start # <<>>
    /\ daily_schedules[1].activities = <<>>
    /\ daily_schedules[2].pool_at_start = daily_schedules[1].pool_at_start
    /\ daily_schedules[2].activities # <<>>
    /\ Len(unscheduled_attractions) < Len(daily_schedules[2].pool_at_start)

\* the candidates the ordering has still to select
ToSelect == Sum([i \in DOMAIN grouped |-> Len(grouped[i].group)])

\* C30: every execute call returns: the call reaches its end; each turn of the
\* nearest-neighbour loop takes exactly one candidate out of the groups; each
\* turn of the walk leaves the ordered list one candidate shorter, so no
\* candidate is visited twice; and the day loop never starts more days than
\* the date range has.
C30_ExecuteTerminates ==
    /\ <>(pc = "done")
    /\ [] ( /\ day <= DurationDays(args.start_date, args.end_date)
            /\ Len(PlansSoFar) <= DurationDays(args.start_date, args.end_date)
            /\ pc \in {"sort", "walk"} => day < DurationDays(args.start_date, args.end_date) )
    /\ [][ /\ pc = "sort" /\ pc' # "done" => ToSelect' = ToSelect - 1
           /\ pc = "walk" /\ pc' = "walk" => day_attractions' = Tail(day_attractions)
           /\ pc = "walk" /\ pc' = "day" => day' = day + 1
         ]_vars

\* a call returned the Day Plans of two days, each of which ordered its
\* candidates and placed some, out of a pool of three
C30_Witness ==
    /\ pc = "done"
    /\ result.kind = "plans"
    /\ Len(result.plans) = 2
    /\ Len(result.plans[1].pool_at_start) = 3
    /\ result.plans[1].activities # <<>>
    /\ result.plans[2].activities # <<>>

==============================================================================
